---- MODULE Spec2Model ----
(***************************************************************************)
(* Model of arrayreader_js.go (package wasmws): arrayReader, an            *)
(* io.ReadCloser over a JavaScript ArrayBuffer that is either given        *)
(* directly or delivered by a promise, pooled through arrayReaderPool.     *)
(*                                                                         *)
(* A Go byte slice is modelled by the storage reachable through it:        *)
(*   [store |-> the bytes from the slice's pointer up to its capacity,     *)
(*    len   |-> its length]                                                *)
(* so cap(s) = Len(s.store), s[n:] drops the first n bytes of the store    *)
(* and s[:k] only changes len.  The bytes of store beyond len are the      *)
(* stale content of the backing array.                                     *)
(***************************************************************************)
EXTENDS Integers, Sequences, FiniteSets, TLC

\* Largest ArrayBuffer the host hands over, and largest destination of a Read.
MaxLen == 4
\* Most Read calls observed in one acquisition.
MaxReads == 3
\* Goroutines that use arrayReaderPool, and arrayReaders that New may allocate.
NumCallers == 2
MaxInst == 3

\* socketStreamThresholdBytes is declared elsewhere in package wasmws; the
\* model uses a small value so that capacities on both sides of it occur.
socketStreamThresholdBytes == 3
bufMax == socketStreamThresholdBytes

Byte == {0, 1}
Messages == {"network error", "aborted"}

Min(a, b) == IF a < b THEN a ELSE b

\* All ArrayBuffer contents of length 0..MaxLen.
Buffers == UNION {[1..n -> Byte] : n \in 0..MaxLen}

\* error values
NilErr == [kind |-> "nil", msg |-> ""]
EOF == [kind |-> "EOF", msg |-> "EOF"]
ErrorsNew(m) == [kind |-> "errorString", msg |-> m]

\* slices
NilSlice == [store |-> <<>>, len |-> 0]
cap(s) == Len(s.store)
Bytes(s) == SubSeq(s.store, 1, s.len)
\* s[n:]
\* faulty variant: the unread bytes are moved to the front of the array, which
\* keeps its capacity
SliceFromKeepCap(s, n) ==
    [store |-> SubSeq(s.store, n + 1, Len(s.store)) \o [i \in 1..n |-> 0], len |-> s.len - n]
\* faulty variant: the slice is not advanced
SliceFromKeep(s, n) == s
SliceFrom(s, n) == [store |-> SubSeq(s.store, n + 1, Len(s.store)), len |-> s.len - n]
\* s[:k]
SliceTo(s, k) == [store |-> s.store, len |-> k]
\* make([]byte, count): zeroed, capacity = length
make(count) == [store |-> [i \in 1..count |-> 0], len |-> count]

\* js.CopyBytesToGo(dst, src): copies min(len(dst), len(src)) bytes into dst
CopyBytesToGo(dst, src) ==
    LET k == Min(dst.len, Len(src))
    IN  [dst EXCEPT !.store = [i \in 1..Len(dst.store) |->
                                  IF i <= k THEN src[i] ELSE dst.store[i]]]

\* the builtin copy(buf, ar.remaining) with len(buf) = blen: number of bytes copied
copy(blen, rem) == Min(blen, rem.len)

\* arrayReader.fromArray: the slice returned, and whether it allocated
fromArray(rem, arrayBuf) ==
    LET count == Len(arrayBuf)
        reuse == count <= cap(rem)
        goBuf == IF reuse THEN SliceTo(rem, count) ELSE make(count)
    IN  [goBuf |-> CopyBytesToGo(goBuf, arrayBuf), alloc |-> ~reuse]

VARIABLES
    pc,          \* where the instance is: "pool", "held" (acquired, no Read running), "wait" (Read blocked in select)
    jsPromise,   \* ar.jsPromise: "undefined" (js.Value{}) or "promise"
    remaining,   \* ar.remaining
    read,        \* ar.read
    err,         \* ar.err
    readCh,      \* Read's local channel readCh (capacity 1)
    errCh,       \* Read's local channel errCh (capacity 1)
    reaction,    \* the then-registration: "none", "pending" (registered, callback not run), "done"
    promise,     \* the host promise: [state, value, reason]
    arrayBuffer, \* the ArrayBuffer given to newReaderArrayBuffer
    buflen,      \* len(buf) of the running or last Read
    ret,         \* what the last Read returned: [n, err]
    prev,        \* what the Read before the last returned
    out,         \* the bytes the last Read wrote to buf[0:n]
    delivered,   \* all bytes written to destinations in this acquisition
    capacity,    \* total len(buf) over the Reads of this acquisition, capped at MaxLen
    nreads,      \* Reads returned in this acquisition
    thens,       \* calls of jsPromise.then in this acquisition
    alloc,       \* whether the last fromArray called make
    fresh,       \* whether arrayReaderPool.Get ran New for this acquisition
    pooled,      \* whether arrayReaderPool holds the instance that Close put back
    reported,    \* the count newReaderArrayBuffer returned: <<count>>, or <<>> when none
    pc2,         \* a second goroutine calling Read on the same instance: "idle" or "wait"
    ret2,        \* what the second goroutine's last Read returned
    holder,      \* per goroutine, the arrayReader it got from arrayReaderPool (0: none)
    inPool,      \* per arrayReader, how many times it is in arrayReaderPool
    made,        \* arrayReaders allocated by arrayReaderPool.New
    conf         \* per arrayReader, how it is configured: "unconfigured", "promise", "buffer"

readerVars == <<pc, jsPromise, remaining, read, err, readCh, errCh, reaction, promise,
                arrayBuffer, buflen, ret, prev, out, delivered, capacity, nreads, thens, alloc,
                fresh, pooled, reported>>
concVars == <<pc2, ret2>>
poolVars == <<holder, inPool, made, conf>>
vars == <<readerVars, concVars, poolVars>>

Callers == 1..NumCallers
Insts == 1..MaxInst

instance == <<jsPromise, remaining, read, err>>
observed == <<buflen, ret, prev, out, delivered, capacity, nreads>>

NoPromise == [state |-> "none", value |-> <<>>, reason |-> ""]
NoRet == [n |-> 0, err |-> NilErr]

Init ==
    /\ pc = "pool"
    /\ jsPromise = "undefined"
    /\ remaining = NilSlice
    /\ read = FALSE
    /\ err = NilErr
    /\ readCh = <<>>
    /\ errCh = <<>>
    /\ reaction = "none"
    /\ promise = NoPromise
    /\ arrayBuffer = <<>>
    /\ buflen = 0
    /\ ret = NoRet
    /\ prev = NoRet
    /\ out = <<>>
    /\ delivered = <<>>
    /\ capacity = 0
    /\ nreads = 0
    /\ thens = 0
    /\ alloc = FALSE
    /\ fresh = TRUE
    /\ pooled = FALSE
    /\ reported = <<>>
    /\ pc2 = "idle"
    /\ ret2 = NoRet
    /\ holder = [c \in Callers |-> 0]
    /\ inPool = [i \in Insts |-> 0]
    /\ made = 0
    /\ conf = [i \in Insts |-> "unconfigured"]

\* arrayReaderPool.Get(): the pooled instance as Reset left it, or New's zero
\* value; an empty pool always runs New.  The model follows one instance, so
\* when New runs the pooled instance is no longer followed.
GetChoices == IF pooled THEN BOOLEAN ELSE {TRUE}
PoolGet(isNew) == IF isNew THEN NilSlice ELSE remaining

\* nothing of an acquisition has been observed: at its start, and once the
\* caller has given the instance back
NewAcquisition ==
    /\ buflen' = 0
    /\ ret' = NoRet
    /\ prev' = NoRet
    /\ out' = <<>>
    /\ delivered' = <<>>
    /\ capacity' = 0
    /\ nreads' = 0
    /\ thens' = 0
    /\ readCh' = <<>>
    /\ errCh' = <<>>
    /\ reaction' = "none"
    /\ pc2' = "idle"
    /\ ret2' = NoRet

\* faulty variant: the constructor already registers on the promise
newReaderArrayPromiseEager ==
    /\ pc = "pool"
    /\ \E isNew \in GetChoices :
          /\ remaining' = PoolGet(isNew)
          /\ fresh' = isNew
    /\ jsPromise' = "promise"
    /\ promise' = [state |-> "pending", value |-> <<>>, reason |-> ""]
    /\ arrayBuffer' = <<>>
    /\ pc' = "held"
    /\ pooled' = FALSE
    /\ buflen' = 0
    /\ ret' = NoRet
    /\ prev' = NoRet
    /\ out' = <<>>
    /\ delivered' = <<>>
    /\ capacity' = 0
    /\ nreads' = 0
    /\ thens' = 1
    /\ readCh' = <<>>
    /\ errCh' = <<>>
    /\ reaction' = "pending"
    /\ pc2' = "idle"
    /\ ret2' = NoRet
    /\ reported' = <<>>
    /\ UNCHANGED <<read, err, alloc>>
    /\ UNCHANGED poolVars
newReaderArrayPromise ==
    /\ pc = "pool"
    /\ \E isNew \in GetChoices :
          /\ remaining' = PoolGet(isNew)
          /\ fresh' = isNew
    /\ jsPromise' = "promise"
    /\ promise' = [state |-> "pending", value |-> <<>>, reason |-> ""]
    /\ arrayBuffer' = <<>>
    /\ pc' = "held"
    /\ pooled' = FALSE
    /\ NewAcquisition
    /\ reported' = <<>>
    /\ UNCHANGED <<read, err, alloc>>
    /\ UNCHANGED poolVars

\* faulty variant: ar.read is not set
newReaderArrayBufferNoFlag ==
    /\ pc = "pool"
    /\ \E isNew \in GetChoices, ab \in Buffers :
          LET r == fromArray(PoolGet(isNew), ab)
          IN  /\ remaining' = r.goBuf
              /\ alloc' = r.alloc
              /\ fresh' = isNew
              /\ arrayBuffer' = ab
              /\ reported' = <<r.goBuf.len>>
    /\ promise' = NoPromise
    /\ pc' = "held"
    /\ pooled' = FALSE
    /\ NewAcquisition
    /\ UNCHANGED <<jsPromise, err, read>>
    /\ UNCHANGED poolVars
newReaderArrayBuffer ==
    /\ pc = "pool"
    /\ \E isNew \in GetChoices, ab \in Buffers :
          LET r == fromArray(PoolGet(isNew), ab)
          IN  /\ remaining' = r.goBuf
              /\ alloc' = r.alloc
              /\ fresh' = isNew
              /\ arrayBuffer' = ab
              /\ reported' = <<r.goBuf.len>>
    /\ read' = TRUE
    /\ promise' = NoPromise
    /\ pc' = "held"
    /\ pooled' = FALSE
    /\ NewAcquisition
    /\ UNCHANGED <<jsPromise, err>>
    /\ UNCHANGED poolVars

\* arrayReader.Reset: what becomes of ar.remaining
\* faulty variant: the backing array is kept whatever its capacity
ResetKeepAll(rem) == SliceTo(rem, 0)
\* faulty variant: a kept backing array is not truncated
ResetKeepLen(rem) == IF cap(rem) < bufMax THEN rem ELSE NilSlice
ResetRemaining(rem) == IF cap(rem) < bufMax THEN SliceTo(rem, 0) ELSE NilSlice

\* arrayReader.Close: Reset, then arrayReaderPool.Put
Close ==
    /\ pc = "held"
    /\ jsPromise' = "undefined"
    /\ read' = FALSE
    /\ err' = NilErr
    /\ remaining' = ResetRemaining(remaining)
    /\ pc' = "pool"
    /\ pooled' = TRUE
    /\ promise' = NoPromise
    /\ arrayBuffer' = <<>>
    /\ NewAcquisition
    /\ reported' = <<>>
    /\ UNCHANGED <<alloc, fresh>>
    /\ UNCHANGED poolVars

\* the host settles the promise the reader holds
Resolve ==
    /\ jsPromise = "promise"
    /\ promise.state = "pending"
    /\ \E ab \in Buffers : promise' = [state |-> "fulfilled", value |-> ab, reason |-> ""]
    /\ UNCHANGED <<pc, remaining, read, err, readCh, errCh, reaction, arrayBuffer, alloc, fresh, thens, pooled>>
    /\ UNCHANGED <<jsPromise>>
    /\ UNCHANGED observed
    /\ UNCHANGED <<reported, concVars, poolVars>>

Reject ==
    /\ jsPromise = "promise"
    /\ promise.state = "pending"
    /\ \E m \in Messages : promise' = [state |-> "rejected", value |-> <<>>, reason |-> m]
    /\ UNCHANGED <<pc, remaining, read, err, readCh, errCh, reaction, arrayBuffer, alloc, fresh, thens, pooled>>
    /\ UNCHANGED <<jsPromise>>
    /\ UNCHANGED observed
    /\ UNCHANGED <<reported, concVars, poolVars>>

\* Read returns (n, e) having written o to buf[0:n]
Return(n, e, o) ==
    /\ ret' = [n |-> n, err |-> e]
    /\ prev' = ret
    /\ out' = o
    /\ delivered' = delivered \o o
    /\ nreads' = nreads + 1
    /\ pc' = "held"

\* Read from "if len(ar.remaining) < 1" to its end, with len(buf) = blen
\* faulty variant: the last byte is never delivered
ReadTailEarlyEOF(rem, blen) ==
    IF rem.len <= 1
    THEN [n |-> 0, err |-> EOF, remaining |-> rem, out |-> <<>>]
    ELSE LET n == copy(blen, rem)
         IN  [n |-> n, err |-> NilErr, remaining |-> SliceFrom(rem, n),
              out |-> SubSeq(rem.store, 1, n)]
\* faulty variant: a Read that copies nothing reports end of data
ReadTailZeroIsEOF(rem, blen) ==
    IF rem.len < 1 \/ copy(blen, rem) = 0
    THEN [n |-> 0, err |-> EOF, remaining |-> rem, out |-> <<>>]
    ELSE LET n == copy(blen, rem)
         IN  [n |-> n, err |-> NilErr, remaining |-> SliceFrom(rem, n),
              out |-> SubSeq(rem.store, 1, n)]
ReadTail(rem, blen) ==
    IF rem.len < 1
    THEN [n |-> 0, err |-> EOF, remaining |-> rem, out |-> <<>>]
    ELSE LET n == copy(blen, rem)
         IN  [n |-> n, err |-> NilErr, remaining |-> SliceFrom(rem, n),
              out |-> SubSeq(rem.store, 1, n)]

\* "if !ar.read"
\* faulty variant: an exhausted reader resolves again
notReadOrEmpty == ~read \/ remaining.len < 1
notRead == ~read

\* "ar.read = true", the value the flag gets before the wait
\* faulty variant: the flag is not set
readFlagUnset == FALSE
readFlagSet == TRUE

\* Read is called with a destination of blen bytes and runs until it returns
\* or blocks in the select
Read ==
    /\ pc = "held"
    /\ nreads < MaxReads
    /\ \E blen \in 0..MaxLen :
        /\ buflen' = blen
        /\ capacity' = Min(capacity + blen, MaxLen)
        /\ IF err # NilErr
           THEN /\ Return(0, err, <<>>)
                /\ UNCHANGED <<remaining, read, readCh, errCh, reaction, thens>>
           ELSE IF notRead
           THEN /\ read' = readFlagSet
                /\ readCh' = <<>>
                /\ errCh' = <<>>
                /\ reaction' = "pending"
                /\ thens' = thens + 1
                /\ pc' = "wait"
                /\ UNCHANGED <<remaining, ret, prev, out, delivered, nreads>>
           ELSE LET t == ReadTail(remaining, blen)
                IN  /\ remaining' = t.remaining
                    /\ Return(t.n, t.err, t.out)
                    /\ UNCHANGED <<read, readCh, errCh, reaction, thens>>
    /\ UNCHANGED <<jsPromise, err, promise, arrayBuffer, alloc, fresh, pooled>>
    /\ UNCHANGED <<reported, concVars, poolVars>>

\* the host runs successCallback: readCh <- ar.fromArray(args[0])
successCallback ==
    /\ reaction = "pending"
    /\ promise.state = "fulfilled"
    /\ Len(readCh) < 1
    /\ LET r == fromArray(remaining, promise.value)
       IN  /\ readCh' = Append(readCh, r.goBuf)
           /\ alloc' = r.alloc
           \* a reused backing array is written in place
           /\ remaining' = IF r.alloc THEN remaining
                           ELSE [store |-> r.goBuf.store, len |-> remaining.len]
    /\ reaction' = "done"
    /\ UNCHANGED <<pc, jsPromise, read, err, errCh, promise, arrayBuffer, fresh, thens, pooled>>
    /\ UNCHANGED observed
    /\ UNCHANGED <<reported, concVars, poolVars>>

\* the host runs failureCallback: errCh <- errors.New(message)
\* faulty variant: the callback sends nothing
failureCallbackNoSend ==
    /\ reaction = "pending"
    /\ promise.state = "rejected"
    /\ reaction' = "done"
    /\ UNCHANGED <<pc, jsPromise, remaining, read, err, readCh, errCh, promise, arrayBuffer, alloc,
                   fresh, thens, pooled>>
    /\ UNCHANGED observed
    /\ UNCHANGED <<reported, concVars, poolVars>>
\* faulty variant: the callback also sends on readCh
failureCallbackSendsBoth ==
    /\ reaction = "pending"
    /\ promise.state = "rejected"
    /\ Len(errCh) < 1
    /\ errCh' = Append(errCh, ErrorsNew(promise.reason))
    /\ readCh' = Append(readCh, NilSlice)
    /\ reaction' = "done"
    /\ UNCHANGED <<pc, jsPromise, remaining, read, err, promise, arrayBuffer, alloc, fresh, thens, pooled>>
    /\ UNCHANGED observed
    /\ UNCHANGED <<reported, concVars, poolVars>>
failureCallback ==
    /\ reaction = "pending"
    /\ promise.state = "rejected"
    /\ Len(errCh) < 1
    /\ errCh' = Append(errCh, ErrorsNew(promise.reason))
    /\ reaction' = "done"
    /\ UNCHANGED <<pc, jsPromise, remaining, read, err, readCh, promise, arrayBuffer, alloc, fresh, thens, pooled>>
    /\ UNCHANGED observed
    /\ UNCHANGED <<reported, concVars, poolVars>>

\* select, case ar.remaining = <-readCh, and the rest of Read
SelectReadCh ==
    /\ pc = "wait"
    /\ readCh # <<>>
    /\ LET t == ReadTail(Head(readCh), buflen)
       IN  /\ remaining' = t.remaining
           /\ Return(t.n, t.err, t.out)
    /\ readCh' = Tail(readCh)
    /\ UNCHANGED <<jsPromise, read, err, errCh, reaction, promise, arrayBuffer, alloc, fresh, thens, pooled,
                   buflen, capacity>>
    /\ UNCHANGED <<reported, concVars, poolVars>>

\* select, case err := <-errCh: return 0, err
\* faulty variant: the failure path drops the backing array
SelectErrChDropsRemaining ==
    /\ pc = "wait"
    /\ errCh # <<>>
    /\ Return(0, Head(errCh), <<>>)
    /\ errCh' = Tail(errCh)
    /\ remaining' = NilSlice
    /\ UNCHANGED <<jsPromise, read, err, readCh, reaction, promise, arrayBuffer, alloc,
                   fresh, thens, pooled, buflen, capacity>>
    /\ UNCHANGED <<reported, concVars, poolVars>>
SelectErrCh ==
    /\ pc = "wait"
    /\ errCh # <<>>
    /\ Return(0, Head(errCh), <<>>)
    /\ errCh' = Tail(errCh)
    /\ UNCHANGED <<jsPromise, remaining, read, err, readCh, reaction, promise, arrayBuffer, alloc,
                   fresh, thens, pooled, buflen, capacity>>
    /\ UNCHANGED <<reported, concVars, poolVars>>

Next ==
    \/ newReaderArrayPromise
    \/ newReaderArrayBuffer
    \/ Close
    \/ Resolve
    \/ Reject
    \/ Read
    \/ successCallback
    \/ failureCallback
    \/ SelectReadCh
    \/ SelectErrCh

Spec == Init /\ [][Next]_vars

\* The host event loop runs a callback whose promise has settled, and the Go
\* scheduler resumes a goroutine whose select has a ready case.
FairSpec ==
    /\ Init
    /\ [][Next]_vars
    /\ WF_vars(successCallback)
    /\ WF_vars(failureCallback)
    /\ WF_vars(SelectReadCh)
    /\ WF_vars(SelectErrCh)

(***************************************************************************)
(* Two goroutines on one instance.  The file builds only for GOOS=js       *)
(* (syscall/js), where goroutines share one thread and are not preempted:  *)
(* a goroutine runs until it blocks, so Read runs from its entry to the    *)
(* select without another goroutine seeing a state in between "if !ar.read"*)
(* and "ar.read = true".  A second goroutine can therefore call Read only  *)
(* while the first is blocked in the select.                               *)
(***************************************************************************)
ConcurrentRead ==
    /\ pc = "wait"
    /\ pc2 = "idle"
    /\ \E blen \in 0..MaxLen :
          IF err # NilErr
          THEN /\ ret2' = [n |-> 0, err |-> err]
               /\ UNCHANGED <<pc2, remaining, read, thens, delivered>>
          ELSE IF notRead
          THEN /\ read' = readFlagSet
               /\ thens' = thens + 1
               /\ pc2' = "wait"
               /\ UNCHANGED <<ret2, remaining, delivered>>
          ELSE LET t == ReadTail(remaining, blen)
               IN  /\ remaining' = t.remaining
                   /\ delivered' = delivered \o t.out
                   /\ ret2' = [n |-> t.n, err |-> t.err]
                   /\ UNCHANGED <<pc2, read, thens>>
    /\ UNCHANGED <<pc, jsPromise, err, readCh, errCh, reaction, promise, arrayBuffer, buflen, ret,
                   prev, out, capacity, nreads, alloc, fresh, pooled, reported>>
    /\ UNCHANGED poolVars

ConcNext ==
    \/ Next
    \/ ConcurrentRead

ConcSpec == Init /\ [][ConcNext]_vars

(***************************************************************************)
(* Several goroutines on arrayReaderPool.  sync.Pool's Get removes an item *)
(* from the pool or calls New, Put adds one, and the pool may drop items   *)
(* at any time; each of the three is atomic.                               *)
(***************************************************************************)
\* arrayReaderPool.Get() by goroutine c, then the constructor configures it
callerGet(c, how) ==
    /\ holder[c] = 0
    /\ \/ \E i \in Insts :
             /\ inPool[i] > 0
             /\ inPool' = [inPool EXCEPT ![i] = @ - 1]
             /\ holder' = [holder EXCEPT ![c] = i]
             /\ conf' = [conf EXCEPT ![i] = how]
             /\ made' = made
       \/ /\ made < MaxInst
          /\ made' = made + 1
          /\ holder' = [holder EXCEPT ![c] = made + 1]
          /\ conf' = [conf EXCEPT ![made + 1] = how]
          /\ inPool' = inPool
    /\ UNCHANGED <<readerVars, concVars>>

callerNewReaderArrayPromise(c) == callerGet(c, "promise")

callerNewReaderArrayBuffer(c) == callerGet(c, "buffer")

\* arrayReader.Close by the goroutine that holds the instance
\* faulty variant: the instance is put back twice
callerClosePutsTwice(c) ==
    /\ holder[c] # 0
    /\ conf' = [conf EXCEPT ![holder[c]] = "unconfigured"]
    /\ inPool' = [inPool EXCEPT ![holder[c]] = @ + 2]
    /\ holder' = [holder EXCEPT ![c] = 0]
    /\ UNCHANGED <<made, readerVars, concVars>>
callerClose(c) ==
    /\ holder[c] # 0
    /\ conf' = [conf EXCEPT ![holder[c]] = "unconfigured"]
    /\ inPool' = [inPool EXCEPT ![holder[c]] = @ + 1]
    /\ holder' = [holder EXCEPT ![c] = 0]
    /\ UNCHANGED <<made, readerVars, concVars>>

\* sync.Pool drops a pooled item
poolDrop ==
    /\ \E i \in Insts :
          /\ inPool[i] > 0
          /\ inPool' = [inPool EXCEPT ![i] = @ - 1]
    /\ UNCHANGED <<holder, made, conf, readerVars, concVars>>

PoolNext ==
    \/ \E c \in Callers : callerNewReaderArrayPromise(c)
    \/ \E c \in Callers : callerNewReaderArrayBuffer(c)
    \/ \E c \in Callers : callerClose(c)
    \/ poolDrop

PoolSpec == Init /\ [][PoolNext]_vars

TypeOK ==
    /\ pc \in {"pool", "held", "wait"}
    /\ jsPromise \in {"undefined", "promise"}
    /\ remaining.len <= cap(remaining)
    /\ cap(remaining) <= MaxLen
    /\ read \in BOOLEAN
    /\ Len(readCh) <= 1
    /\ Len(errCh) <= 1
    /\ nreads \in 0..MaxReads

(***************************************************************************)
(* Properties                                                              *)
(***************************************************************************)

\* the acquisition was configured by newReaderArrayBuffer / newReaderArrayPromise
FromBuffer == pc # "pool" /\ jsPromise = "undefined"
FromPromise == pc # "pool" /\ jsPromise = "promise"
\* the host buffer of the acquisition
HostBuf == IF jsPromise = "promise" THEN promise.value ELSE arrayBuffer
\* bytes delivered before the last Read
Before == Len(delivered) - Len(out)
\* this step is a call of Read (it returns at once or blocks)
ReadCalled == pc = "held" /\ (nreads' = nreads + 1 \/ pc' = "wait")
\* this step is a return of Read
ReadReturned == nreads' = nreads + 1
\* what a Read returns when Before bytes of host buffer B were delivered
\* before it: the next min(len(buf), bytes left) bytes, or end of data
NextChunk(B) ==
    IF Before < Len(B)
    THEN /\ ret = [n |-> Min(buflen, Len(B) - Before), err |-> NilErr]
         /\ out = SubSeq(B, Before + 1, Before + ret.n)
    ELSE /\ ret = [n |-> 0, err |-> EOF]
         /\ out = <<>>

\* C1: a reader made from a buffer of length L (L = 0 included) has delivered
\* the first min(L, total destination capacity) bytes of the buffer, in order,
\* every Read that found bytes left returned ok with the next bytes, and a
\* Read issued after the L-th byte (the first Read when L = 0) returned
\* (0, end-of-data).
C1_ResolvedBufferReadInOrder ==
    FromBuffer =>
        /\ delivered = SubSeq(arrayBuffer, 1, Min(Len(arrayBuffer), capacity))
        /\ nreads > 0 => NextChunk(arrayBuffer)

C1_Witness ==
    /\ FromBuffer
    /\ Len(arrayBuffer) >= 3
    /\ arrayBuffer[1] # arrayBuffer[2]
    /\ nreads = 3
    /\ Before = Len(arrayBuffer)
    /\ delivered = arrayBuffer
    /\ ret = [n |-> 0, err |-> EOF]

\* C2 as stated: when the promise resolves with B of length L, the Read that
\* was waiting returns (min(len(buf), L), ok) with the first bytes of B, each
\* later Read returns the next min(len(buf), bytes left) bytes, and the Read
\* after the last byte returns (0, end-of-data).
C2_WaitingReadReturnsOk ==
    (FromPromise /\ promise.state = "fulfilled" /\ nreads > 0) =>
        IF nreads = 1
        THEN /\ ret = [n |-> Min(buflen, Len(promise.value)), err |-> NilErr]
             /\ out = SubSeq(promise.value, 1, ret.n)
        ELSE NextChunk(promise.value)

\* C2 amended: as C2 for L >= 1; when L = 0 the Read that was waiting returns
\* (0, end-of-data).  Every Read of the acquisition, the waiting one included,
\* returns the next min(len(buf), bytes left) bytes of B, or (0, end-of-data)
\* when none is left.
C2_PromiseBufferReadInOrder ==
    (FromPromise /\ promise.state = "fulfilled" /\ nreads > 0) =>
        /\ NextChunk(promise.value)
        /\ delivered = SubSeq(promise.value, 1, Len(delivered))

\* the scenario of the specification scaled to the model: L = 4, destinations
\* of 2 and 4 bytes give (2, ok), (2, ok), (0, end-of-data)
C2_Witness ==
    /\ FromPromise
    /\ promise.state = "fulfilled"
    /\ Len(promise.value) = 4
    /\ promise.value[1] # promise.value[4]
    /\ nreads = 3
    /\ capacity >= 4
    /\ delivered = promise.value
    /\ ret = [n |-> 0, err |-> EOF]

\* C3: the first Read on a reader made from a promise does not return while
\* the promise is pending, and once the promise has settled (resolved or
\* rejected) the waiting Read eventually returns.
C3_ReadWaitsForSettlement ==
    /\ [][(jsPromise = "promise" /\ nreads = 0 /\ ReadReturned)
             => promise.state # "pending"]_vars
    /\ [][(jsPromise = "promise" /\ nreads = 0 /\ ReadCalled) => pc' = "wait"]_vars
    /\ ((pc = "wait" /\ promise.state # "pending") ~> (pc # "wait"))

C3_Witness ==
    /\ FromPromise
    /\ pc = "held"
    /\ nreads = 1
    /\ promise.state = "rejected"
    /\ ret.err = ErrorsNew(promise.reason)

\* C4: once a Read has returned (0, failure(m)), every later Read of the
\* acquisition returns the identical (0, failure(m)).
C4_FailureIsSticky ==
    [][(ReadCalled /\ nreads > 0 /\ ret.err.kind = "errorString")
          => (ReadReturned /\ ret' = ret)]_vars

\* C5: when the promise is rejected with message m, the Read that was waiting
\* returns (0, failure carrying m), writes nothing to the destination, and no
\* step of that Read changes ar.remaining.
C5_RejectionLeavesRemaining ==
    /\ [][(pc = "wait" /\ promise.state = "rejected" /\ ReadReturned)
             => /\ ret' = [n |-> 0, err |-> ErrorsNew(promise.reason)]
                /\ out' = <<>>
                /\ delivered' = <<>>]_vars
    /\ [][(jsPromise = "promise" /\ nreads = 0 /\ pc' # "pool"
           /\ promise'.state \in {"pending", "rejected"})
             => remaining' = remaining]_vars

C5_Witness ==
    /\ FromPromise
    /\ pc = "held"
    /\ nreads = 1
    /\ promise.state = "rejected"
    /\ ret = [n |-> 0, err |-> ErrorsNew("network error")]
    /\ cap(remaining) > 0

\* C6: once a Read has returned (0, end-of-data), every later Read of the
\* acquisition, whatever its destination length, returns (0, end-of-data) at
\* once: it does not call then again and does not wait.
C6_EndOfDataRepeats ==
    [][(ReadCalled /\ nreads > 0 /\ ret.err = EOF)
          => /\ ReadReturned
             /\ ret' = [n |-> 0, err |-> EOF]
             /\ out' = <<>>
             /\ thens' = thens]_vars

C6_Witness ==
    /\ pc = "held"
    /\ nreads = 3
    /\ buflen > 0
    /\ prev = [n |-> 0, err |-> EOF]
    /\ ret = [n |-> 0, err |-> EOF]
    /\ Len(delivered) > 0

\* C7: a Read with a zero-length destination on a resolved reader with no
\* failure returns (0, ok) and leaves ar.remaining unchanged when ar.remaining
\* is not empty, and returns (0, end-of-data) when it is empty.
C7_ZeroLengthDestination ==
    [][(ReadCalled /\ buflen' = 0 /\ read /\ err = NilErr)
          => /\ ReadReturned
             /\ out' = <<>>
             /\ remaining' = remaining
             /\ ret' = [n |-> 0, err |-> IF remaining.len > 0 THEN NilErr ELSE EOF]]_vars

C7_Witness ==
    /\ pc = "held"
    /\ nreads > 0
    /\ buflen = 0
    /\ ret = [n |-> 0, err |-> NilErr]
    /\ remaining.len > 0
    /\ Len(delivered) > 0

\* C8: in one acquisition then is called on the promise at most once, and only
\* the first Read waits: no Read after it registers or blocks, whether the
\* resolution succeeded or was rejected.
C8_ResolvesAtMostOnce ==
    /\ thens <= 1
    /\ pc = "wait" => (nreads = 0 /\ thens = 1)
    /\ nreads > 0 => reaction # "pending"

C8_Witness ==
    /\ FromPromise
    /\ pc = "held"
    /\ nreads = 2
    /\ thens = 1
    /\ promise.state = "rejected"
    /\ prev.err = ErrorsNew(promise.reason)

\* C9: an acquisition that reuses a pooled instance delivers only bytes of its
\* own host buffer (none when its promise is rejected), whatever the previous
\* acquisition left in the backing array.
C9_NoStaleBytes ==
    (pc # "pool" /\ ~fresh) =>
        /\ Len(delivered) <= Len(HostBuf)
        /\ \A i \in 1..Len(delivered) : delivered[i] = HostBuf[i]

\* a reused backing array whose second byte is still the previous
\* acquisition's, after the new one-byte buffer was read
C9_Witness ==
    /\ pc = "held"
    /\ ~fresh
    /\ ~alloc
    /\ HostBuf = <<0>>
    /\ delivered = <<0>>
    /\ remaining = [store |-> <<1>>, len |-> 0]

\* C10: Close keeps the backing array (length 0, same capacity) when its
\* capacity is below bufMax and drops it (capacity 0) when its capacity is
\* above; configuring a reused instance with a buffer no longer than the kept
\* capacity does not allocate, and a longer one allocates.
C10_RetentionThreshold ==
    /\ [][(pc = "held" /\ pc' = "pool")
             => /\ cap(remaining) < bufMax => remaining' = [store |-> remaining.store, len |-> 0]
                /\ cap(remaining) > bufMax => cap(remaining') = 0]_vars
    /\ [][(pc = "pool" /\ pc' = "held" /\ ~fresh' /\ jsPromise' = "undefined")
             => /\ alloc' = (Len(arrayBuffer') > cap(remaining))
                /\ ~alloc' => cap(remaining') = cap(remaining)]_vars
    /\ [][(reaction = "pending" /\ reaction' = "done" /\ promise.state = "fulfilled" /\ ~fresh)
             => alloc' = (Len(promise.value) > cap(remaining))]_vars

C10_Witness ==
    /\ pc = "held"
    /\ ~fresh
    /\ ~alloc
    /\ jsPromise = "undefined"
    /\ nreads = 0
    /\ Len(arrayBuffer) = 2
    /\ cap(remaining) = 2

\* C11: the instance the pool hands out, new or put back by Close after any
\* use, is unconfigured: no promise handle, read false, no error, and
\* ar.remaining of length zero.
C11_PooledInstanceUnconfigured ==
    pc = "pool" =>
        /\ jsPromise = "undefined"
        /\ read = FALSE
        /\ err = NilErr
        /\ PoolGet(TRUE).len = 0
        /\ PoolGet(FALSE).len = 0

\* a used instance is back in the pool with its backing array kept
C11_Witness ==
    /\ pc = "pool"
    /\ pooled
    /\ cap(remaining) = 2
    /\ remaining.store[1] = 1

\* C14: newReaderArrayPromise only stores the promise: it does not call then,
\* does not block, copies nothing, and leaves ar.remaining, ar.read (false)
\* and ar.err (nil) as the pool handed them out.
C14_PromiseConstructorOnlyStores ==
    [][(pc = "pool" /\ jsPromise' = "promise")
          => /\ pc' = "held"
             /\ promise'.state = "pending"
             /\ thens' = 0
             /\ reaction' = "none"
             /\ readCh' = <<>> /\ errCh' = <<>>
             /\ read' = read /\ ~read'
             /\ err' = err /\ err' = NilErr
             /\ remaining' = PoolGet(fresh')
             /\ alloc' = alloc
             /\ delivered' = <<>>]_vars

\* a reader made from a promise on a reused instance: the promise has
\* resolved, nothing was registered or copied
C14_Witness ==
    /\ FromPromise
    /\ pc = "held"
    /\ ~fresh
    /\ nreads = 0
    /\ thens = 0
    /\ ~read
    /\ promise.state = "fulfilled"
    /\ Len(promise.value) = 2
    /\ remaining = [store |-> <<1, 1>>, len |-> 0]

\* C15 as stated: on a configured instance exactly one of {the promise handle
\* is present, ar.read is true} holds.
C15_ExactlyOneOfHandleAndRead ==
    pc # "pool" => ((jsPromise = "promise") # read)

\* C15 amended: on a configured instance at least one of the two holds; a
\* reader made from a buffer has no handle and read true; a reader made from
\* a promise keeps the handle until Close and has read true exactly from its
\* first Read on, so both hold after the first Read.
C15_HandleKeptUntilClose ==
    pc # "pool" =>
        /\ (jsPromise = "promise") \/ read
        /\ jsPromise = "undefined" => (read /\ promise.state = "none" /\ thens = 0)
        /\ jsPromise = "promise" => (promise.state # "none" /\ (read <=> thens = 1))

C15_Witness ==
    /\ pc = "held"
    /\ jsPromise = "promise"
    /\ read
    /\ nreads = 2
    /\ promise.state = "fulfilled"

\* the part of host buffer B after its first k bytes
Suffix(B, k) == SubSeq(B, k + 1, Len(B))

\* C16 as stated: whenever ar.read is true on an acquired instance,
\* ar.remaining is the part of the host buffer not yet delivered, and its
\* length never increases during an acquisition.
C16_RemainingIsUnreadSuffix ==
    /\ []((pc # "pool" /\ read) => Bytes(remaining) = Suffix(HostBuf, Len(delivered)))
    /\ [][(pc # "pool" /\ pc' # "pool") => remaining'.len <= remaining.len]_vars

\* C16 amended: whenever ar.read is true and no Read is blocked waiting for
\* the promise, ar.remaining is the part of the host buffer not yet
\* delivered; from then on its length does not increase from one Read to the
\* next.
C16_RemainingIsUnreadSuffixBetweenReads ==
    /\ []((pc = "held" /\ read) => Bytes(remaining) = Suffix(HostBuf, Len(delivered)))
    /\ [][(pc = "held" /\ read /\ pc' = "held") => remaining'.len <= remaining.len]_vars

C16_Witness ==
    /\ FromPromise
    /\ pc = "held"
    /\ read
    /\ nreads = 2
    /\ Len(delivered) = 2
    /\ Bytes(remaining) = <<0, 1>>

\* C17: once a Read has returned end-of-data or a failure, no later Read of
\* the acquisition returns ok or writes bytes to its destination.
C17_TerminalStaysTerminal ==
    [][(ReadReturned /\ nreads > 0 /\ ret.err # NilErr)
          => (ret'.err # NilErr /\ ret'.n = 0 /\ out' = <<>>)]_vars

\* a Read with a non-empty destination after a failure, on a reused backing
\* array
C17_Witness ==
    /\ FromPromise
    /\ pc = "held"
    /\ nreads = 2
    /\ buflen > 0
    /\ prev.err = ErrorsNew("aborted")
    /\ ret.err # NilErr
    /\ cap(remaining) > 0

\* C19: in one resolution attempt at most one value is sent on readCh and
\* errCh together, the callback that sends finds its channel empty, and the
\* value sent is the one the waiting Read receives: it is in the channel
\* while the Read waits and gone when the Read has returned.
C19_OneValuePerAttempt ==
    /\ Len(readCh) + Len(errCh) <= 1
    /\ reaction = "pending" => (readCh = <<>> /\ errCh = <<>>)
    /\ (pc = "wait" /\ reaction = "done") => Len(readCh) + Len(errCh) = 1
    /\ (pc = "wait" /\ readCh # <<>>) => Bytes(Head(readCh)) = promise.value
    /\ (pc = "wait" /\ errCh # <<>>) => Head(errCh) = ErrorsNew(promise.reason)
    /\ pc # "wait" => (readCh = <<>> /\ errCh = <<>>)
    /\ (FromPromise /\ nreads = 1) =>
          /\ promise.state = "rejected" => ret.err = ErrorsNew(promise.reason)
          /\ promise.state = "fulfilled" => delivered \o Bytes(remaining) = promise.value

C19_Witness ==
    /\ pc = "wait"
    /\ reaction = "done"
    /\ errCh = <<>>
    /\ Len(readCh) = 1
    /\ Bytes(Head(readCh)) = <<1, 0, 1>>

\* the slice a returning Read copies from
ReadSource == IF pc = "wait" /\ readCh # <<>> THEN Head(readCh) ELSE remaining
\* the acquisition has a host buffer
HasBuffer == jsPromise = "undefined" \/ promise.state = "fulfilled"

\* C20: a Read that delivers n bytes reduces both the length and the capacity
\* of ar.remaining by n, so a buffer that fromArray allocated has capacity
\* len(buffer) - bytes delivered (0 once it is read to the end), and that is
\* the capacity Reset compares with bufMax and Close leaves for reuse.
C20_ReadConsumesCapacity ==
    /\ [][ReadReturned => /\ cap(remaining') = cap(ReadSource) - ret'.n
                          /\ remaining'.len = ReadSource.len - ret'.n]_vars
    /\ []((pc = "held" /\ read /\ HasBuffer /\ alloc)
             => cap(remaining) = Len(HostBuf) - Len(delivered))
    /\ [][(pc = "held" /\ pc' = "pool" /\ read /\ HasBuffer /\ alloc)
             => cap(remaining') = IF Len(HostBuf) - Len(delivered) < bufMax
                                  THEN Len(HostBuf) - Len(delivered) ELSE 0]_vars

\* a four-byte buffer, above bufMax when allocated, is below it after two
\* bytes were read
C20_Witness ==
    /\ pc = "held"
    /\ alloc
    /\ HasBuffer
    /\ Len(HostBuf) = 4
    /\ Len(delivered) = 2
    /\ cap(remaining) = 2

\* C12: with several goroutines getting and closing readers, each closing
\* what it got once and not using it afterwards, no arrayReader is held by
\* two goroutines at once, and none is in the pool while a goroutine holds it.
C12_NoSharedInstance ==
    /\ \A c1, c2 \in Callers :
          (c1 # c2 /\ holder[c1] # 0) => holder[c1] # holder[c2]
    /\ \A c \in Callers : holder[c] # 0 => inPool[holder[c]] = 0
    /\ \A i \in Insts : inPool[i] > 0 => conf[i] = "unconfigured"

\* both goroutines hold an instance that the other one held before
C12_Witness ==
    /\ holder[1] = 2
    /\ holder[2] = 1
    /\ conf[1] = "promise"
    /\ conf[2] = "buffer"

\* C13: newReaderArrayBuffer with a buffer of length L copies it at once:
\* ar.read is true, ar.remaining holds the L bytes, L is returned, and no
\* Read of the acquisition calls then or blocks.
C13_BufferConstructorCopies ==
    /\ [][(pc = "pool" /\ pc' = "held" /\ jsPromise' = "undefined")
             => /\ read'
                /\ Bytes(remaining') = arrayBuffer'
                /\ reported' = <<Len(arrayBuffer')>>]_vars
    /\ [](FromBuffer => /\ read
                        /\ reported = <<Len(arrayBuffer)>>
                        /\ thens = 0
                        /\ reaction = "none"
                        /\ pc # "wait")

C13_Witness ==
    /\ FromBuffer
    /\ ~fresh
    /\ nreads = 2
    /\ reported = <<3>>
    /\ arrayBuffer = <<1, 0, 1>>
    /\ delivered = <<1, 0>>

\* goroutines blocked in Read's select
Waiters == (IF pc = "wait" THEN 1 ELSE 0) + (IF pc2 = "wait" THEN 1 ELSE 0)

\* C18: when a second goroutine calls Read on an instance whose first Read is
\* still waiting, then is called at most once in the acquisition and at most
\* one goroutine is blocked in the select.
C18_ConcurrentReadsRegisterOnce ==
    /\ thens <= 1
    /\ Waiters <= 1
    /\ pc2 = "idle"

\* the second goroutine's Read has returned while the first still waits for
\* the pending promise
C18_Witness ==
    /\ pc = "wait"
    /\ promise.state = "pending"
    /\ thens = 1
    /\ ret2 = [n |-> 0, err |-> EOF]

====
